---------------------------- MODULE Spec2Model ----------------------------
(***************************************************************************)
(* State-machine model of src/assignment.py: the contact manager's value   *)
(* types (Name, Phone, Birthday), the Record aggregate, the AddressBook    *)
(* and its upcoming-birthday algorithm, the command handlers with their    *)
(* input_error wrapper, and the read loop of main().                       *)
(*                                                                         *)
(* A Python str is a sequence of one-character strings; what the program   *)
(* prints is rendered to a TLA+ string with Str.  An exception is a record *)
(* [type, msg]; NoExc stands for a normal return.                          *)
(***************************************************************************)
EXTENDS Integers, Sequences, FiniteSets, TLC

VARIABLES data, line, out, pc, today

vars == <<data, line, out, pc, today>>

(***************************************************************************)
(* Characters and strings                                                  *)
(***************************************************************************)
Digits == <<"0", "1", "2", "3", "4", "5", "6", "7", "8", "9">>

DigitSet == {Digits[i] : i \in 1..Len(Digits)}

IsDigit(c) == c \in DigitSet

DigitVal(c) == (CHOOSE i \in 1..Len(Digits) : Digits[i] = c) - 1

Whitespace == {" ", "\n", "\t"}

RECURSIVE Str(_)
Str(s) == IF s = <<>> THEN "" ELSE Head(s) \o Str(Tail(s))

RECURSIVE IntChars(_)
IntChars(n) ==
    IF n < 10 THEN <<Digits[n + 1]>>
    ELSE IntChars(n \div 10) \o <<Digits[(n % 10) + 1]>>

Pad2(n) == <<Digits[(n \div 10) + 1], Digits[(n % 10) + 1]>>

RECURSIVE LStrip(_)
LStrip(s) ==
    IF s # <<>> /\ Head(s) \in Whitespace THEN LStrip(Tail(s)) ELSE s

RECURSIVE RStrip(_)
RStrip(s) ==
    IF s # <<>> /\ s[Len(s)] \in Whitespace
    THEN RStrip(SubSeq(s, 1, Len(s) - 1))
    ELSE s

Strip(s) == RStrip(LStrip(s))

\* str.lower() on the letters the command tokens use
UpperCase == <<"A", "C", "D", "E", "I", "L", "O", "S", "T", "X">>

LowerCase == <<"a", "c", "d", "e", "i", "l", "o", "s", "t", "x">>

LowerChar(c) ==
    IF \E i \in 1..Len(UpperCase) : UpperCase[i] = c
    THEN LowerCase[CHOOSE i \in 1..Len(UpperCase) : UpperCase[i] = c]
    ELSE c

Lower(s) == [i \in 1..Len(s) |-> LowerChar(s[i])]

\* s.split('.'): the fields between the dots
RECURSIVE SplitDot(_)
SplitDot(s) ==
    IF \E i \in 1..Len(s) : s[i] = "."
    THEN LET i == CHOOSE k \in 1..Len(s) :
                      s[k] = "." /\ \A j \in 1..(k - 1) : s[j] # "."
         IN  <<SubSeq(s, 1, i - 1)>> \o SplitDot(SubSeq(s, i + 1, Len(s)))
    ELSE <<s>>

\* sep.join(parts), on character sequences
RECURSIVE Join(_, _)
Join(sep, parts) ==
    IF parts = <<>> THEN <<>>
    ELSE IF Len(parts) = 1 THEN parts[1]
    ELSE parts[1] \o sep \o Join(sep, Tail(parts))

\* sep.join(parts), on rendered strings
RECURSIVE JoinStr(_, _)
JoinStr(sep, parts) ==
    IF parts = <<>> THEN ""
    ELSE IF Len(parts) = 1 THEN parts[1]
    ELSE parts[1] \o sep \o JoinStr(sep, Tail(parts))

(***************************************************************************)
(* Exceptions                                                              *)
(***************************************************************************)
NoExc == [type |-> "", msg |-> ""]

ValueError(m) == [type |-> "ValueError", msg |-> m]

IndexError == [type |-> "IndexError", msg |-> "list index out of range"]

AttributeError ==
    [type |-> "AttributeError",
     msg |-> "'NoneType' object has no attribute 'value'"]

\* Python's None, and the test `not x` on None or an object
None == [none |-> TRUE]

(***************************************************************************)
(* datetime: the proleptic Gregorian calendar as CPython computes it       *)
(***************************************************************************)
IsLeap(y) == y % 4 = 0 /\ (y % 100 # 0 \/ y % 400 = 0)

DaysInMonth(y, m) ==
    IF m = 2 THEN (IF IsLeap(y) THEN 29 ELSE 28)
    ELSE IF m \in {4, 6, 9, 11} THEN 30 ELSE 31

RECURSIVE DaysBeforeMonth(_, _)
DaysBeforeMonth(y, m) ==
    IF m = 1 THEN 0 ELSE DaysBeforeMonth(y, m - 1) + DaysInMonth(y, m - 1)

DaysBeforeYear(y) ==
    (y - 1) * 365 + (y - 1) \div 4 - (y - 1) \div 100 + (y - 1) \div 400

\* date.toordinal(): 1 is 0001-01-01
ToOrdinal(dt) == DaysBeforeYear(dt.y) + DaysBeforeMonth(dt.y, dt.m) + dt.d

\* date.weekday(): 0 is Monday, 6 is Sunday
Weekday(dt) == (ToOrdinal(dt) + 6) % 7

\* (a - b).days
DaysBetween(a, b) == ToOrdinal(a) - ToOrdinal(b)

\* date.fromordinal()
FromOrdinal(o) ==
    LET n0   == o - 1
        n400 == n0 \div 146097
        r400 == n0 % 146097
        n100 == r400 \div 36524
        r100 == r400 % 36524
        n4   == r100 \div 1461
        r4   == r100 % 1461
        n1   == r4 \div 365
        n    == r4 % 365
        year == n400 * 400 + 1 + n100 * 100 + n4 * 4 + n1
    IN  IF n1 = 4 \/ n100 = 4
        THEN [y |-> year - 1, m |-> 12, d |-> 31]
        ELSE LET mon == CHOOSE k \in 1..12 :
                            /\ DaysBeforeMonth(year, k) <= n
                            /\ n < DaysBeforeMonth(year, k) + DaysInMonth(year, k)
             IN  [y |-> year, m |-> mon, d |-> n - DaysBeforeMonth(year, mon) + 1]

\* dt + timedelta(days=k)
AddDays(dt, k) == FromOrdinal(ToOrdinal(dt) + k)

\* strftime("%d.%m.%Y"): the C library pads day and month to two digits and
\* prints the year as a plain decimal number
Strftime(dt) == Pad2(dt.d) \o <<".">> \o Pad2(dt.m) \o <<".">> \o IntChars(dt.y)

StrptimeError(s) ==
    ValueError("time data '" \o Str(s) \o "' does not match format '%d.%m.%Y'")

\* The number a string of digits denotes
RECURSIVE Num(_)
Num(s) ==
    IF s = <<>> THEN 0 ELSE Num(SubSeq(s, 1, Len(s) - 1)) * 10 + DigitVal(s[Len(s)])

\* The date strptime builds from day, month and year
DateOf(s, d, m, y) ==
    IF d < 1 \/ d > 31 \/ m < 1 \/ m > 12
    THEN [exc |-> StrptimeError(s), val |-> None]
    ELSE IF y < 1
    THEN [exc |-> ValueError("year 0 is out of range"), val |-> None]
    ELSE IF d > DaysInMonth(y, m)
    THEN [exc |-> ValueError("day is out of range for month"), val |-> None]
    ELSE [exc |-> NoExc, val |-> [y |-> y, m |-> m, d |-> d]]

\* datetime.strptime(s, "%d.%m.%Y") on the strings that reach it, which all
\* come as DD.MM.YYYY..: two digits, two digits, then the year's digits.
\* %Y takes four digits; more leave unconverted data.
Strptime(s) ==
    LET Fields(f) ==
            IF \/ Len(f) # 3
               \/ Len(f[1]) # 2 \/ Len(f[2]) # 2 \/ Len(f[3]) < 4
               \/ \E i \in 1..3 : \E j \in 1..Len(f[i]) : ~IsDigit(f[i][j])
            THEN [exc |-> StrptimeError(s), val |-> None]
            ELSE IF Len(f[3]) > 4
            THEN [exc |-> ValueError("unconverted data remains: "
                                     \o Str(SubSeq(f[3], 5, Len(f[3])))),
                  val |-> None]
            ELSE DateOf(s, Num(f[1]), Num(f[2]), Num(f[3]))
    IN  Fields(SplitDot(s))

(***************************************************************************)
(* Value types.  A constructor returns [exc, val]: the exception raised,   *)
(* or NoExc and the object.                                                *)
(***************************************************************************)
PhoneLen == 10

\* PH_PATTERN.match(value) for r'^\d{10}$': ten digits from the start, then
\* the end of the string, which `$` also finds before one final newline
PH_PATTERN(s) ==
    /\ Len(s) >= PhoneLen
    /\ \A i \in 1..PhoneLen : IsDigit(s[i])
    /\ \/ Len(s) = PhoneLen
       \/ Len(s) = PhoneLen + 1 /\ s[Len(s)] = "\n"

Phone(value) ==
    IF ~PH_PATTERN(value)
    THEN [exc |-> ValueError("Phone number must contain exactly 10 digits."),
          val |-> None]
    ELSE [exc |-> NoExc, val |-> [value |-> value]]

\* BD_PATTERN for r'^\d{2}\.\d{2}\.\d{4}$'
BD_PATTERN(s) ==
    /\ Len(s) >= 10
    /\ \A i \in {1, 2, 4, 5, 7, 8, 9, 10} : IsDigit(s[i])
    /\ s[3] = "." /\ s[6] = "."
    /\ \/ Len(s) = 10
       \/ Len(s) = 11 /\ s[Len(s)] = "\n"

BirthdayFormatError == ValueError("Invalid date format. Use DD.MM.YYYY")

Birthday(value) ==
    IF ~BD_PATTERN(value)
    THEN [exc |-> BirthdayFormatError, val |-> None]
    ELSE LET Parsed(parsed) ==
                 IF parsed.exc # NoExc
                 THEN [exc |-> BirthdayFormatError, val |-> None]
                 ELSE [exc |-> NoExc, val |-> [value |-> parsed.val]]
         IN  Parsed(Strptime(Strip(value)))

(***************************************************************************)
(* Record.  A method returns [exc, rec, val]: the exception raised (or     *)
(* NoExc), the record as the call leaves it, and the value returned.       *)
(***************************************************************************)
Record(name) ==
    [name |-> [value |-> name], phones |-> <<>>, birthday |-> None]

\* x in list / list.index(x): by Phone.__eq__, the values compared
PhoneIn(p, phones) == \E i \in 1..Len(phones) : phones[i] = p

IndexOf(phones, p) ==
    CHOOSE i \in 1..Len(phones) :
        phones[i] = p /\ \A j \in 1..(i - 1) : phones[j] # p

\* add_phone that puts the phone first (self.phones.insert(0, phone_obj))
Record_add_phone_first(rec, phone) ==
    LET Made(phone_obj) ==
            IF phone_obj.exc # NoExc
            THEN [exc |-> phone_obj.exc, rec |-> rec, val |-> None]
            ELSE IF ~PhoneIn(phone_obj.val, rec.phones)
            THEN [exc |-> NoExc,
                  rec |-> [rec EXCEPT !.phones = <<phone_obj.val>> \o @],
                  val |-> None]
            ELSE [exc |-> ValueError("This phone number already exists"),
                  rec |-> rec, val |-> None]
    IN  Made(Phone(phone))

\* add_phone without the `not in self.phones` test
Record_add_phone_unchecked(rec, phone) ==
    LET Made(phone_obj) ==
            IF phone_obj.exc # NoExc
            THEN [exc |-> phone_obj.exc, rec |-> rec, val |-> None]
            ELSE [exc |-> NoExc,
                  rec |-> [rec EXCEPT !.phones = Append(@, phone_obj.val)],
                  val |-> None]
    IN  Made(Phone(phone))

Record_add_phone(rec, phone) ==
    LET Made(phone_obj) ==
            IF phone_obj.exc # NoExc
            THEN [exc |-> phone_obj.exc, rec |-> rec, val |-> None]
            ELSE IF ~PhoneIn(phone_obj.val, rec.phones)
            THEN [exc |-> NoExc,
                  rec |-> [rec EXCEPT !.phones = Append(@, phone_obj.val)],
                  val |-> None]
            ELSE [exc |-> ValueError("This phone number already exists"),
                  rec |-> rec, val |-> None]
    IN  Made(Phone(phone))

Record_add_birthday(rec, birthday) ==
    LET Made(b) ==
            IF b.exc # NoExc
            THEN [exc |-> b.exc, rec |-> rec, val |-> None]
            ELSE [exc |-> NoExc, rec |-> [rec EXCEPT !.birthday = b.val],
                  val |-> None]
    IN  Made(Birthday(birthday))

Record_show_birthday(rec) == rec.birthday

Record_find_phone(rec, phone) ==
    IF \E i \in 1..Len(rec.phones) : rec.phones[i].value = phone
    THEN [exc |-> NoExc, rec |-> rec,
          val |-> rec.phones[CHOOSE k \in 1..Len(rec.phones) :
                                 /\ rec.phones[k].value = phone
                                 /\ \A j \in 1..(k - 1) :
                                        rec.phones[j].value # phone]]
    ELSE [exc |-> ValueError("Phone number not found"), rec |-> rec,
          val |-> None]

\* self.phones[idx] = phone_new
SetPhone(rec, idx, phone_new) == [rec EXCEPT !.phones[idx] = phone_new]

\* edit_phone that stores `new` as it comes (phone_new is not built by
\* Phone(new))
Record_edit_phone_unvalidated(rec, old, new) ==
    LET Found(phone_old) ==
            IF phone_old.exc # NoExc
            THEN [exc |-> phone_old.exc, rec |-> rec, val |-> None]
            ELSE [exc |-> NoExc,
                  rec |-> SetPhone(rec, IndexOf(rec.phones, phone_old.val),
                                   [value |-> new]),
                  val |-> None]
    IN  Found(Record_find_phone(rec, old))

Record_edit_phone(rec, old, new) ==
    LET Found(phone_old) ==
            IF phone_old.exc # NoExc
            THEN [exc |-> phone_old.exc, rec |-> rec, val |-> None]
            ELSE LET Made(phone_new) ==
                         IF phone_new.exc # NoExc
                         THEN [exc |-> phone_new.exc, rec |-> rec,
                               val |-> None]
                         ELSE [exc |-> NoExc,
                               rec |-> SetPhone(rec,
                                                IndexOf(rec.phones,
                                                        phone_old.val),
                                                phone_new.val),
                               val |-> None]
                 IN  Made(Phone(new))
    IN  Found(Record_find_phone(rec, old))

\* list.remove(x): the first element equal to x goes
ListRemove(phones, p) ==
    LET At(i) == SubSeq(phones, 1, i - 1) \o SubSeq(phones, i + 1, Len(phones))
    IN  At(IndexOf(phones, p))

\* delete_phone that takes the last phone out (self.phones.pop())
Record_delete_phone_last(rec, phone) ==
    LET Found(phone_obj) ==
            IF phone_obj.exc # NoExc
            THEN [exc |-> phone_obj.exc, rec |-> rec, val |-> None]
            ELSE [exc |-> NoExc,
                  rec |-> [rec EXCEPT !.phones = SubSeq(@, 1, Len(@) - 1)],
                  val |-> None]
    IN  Found(Record_find_phone(rec, phone))

Record_delete_phone(rec, phone) ==
    LET Found(phone_obj) ==
            IF phone_obj.exc # NoExc
            THEN [exc |-> phone_obj.exc, rec |-> rec, val |-> None]
            ELSE [exc |-> NoExc,
                  rec |-> [rec EXCEPT !.phones = ListRemove(@, phone_obj.val)],
                  val |-> None]
    IN  Found(Record_find_phone(rec, phone))

PhoneValues(rec) == [i \in 1..Len(rec.phones) |-> rec.phones[i].value]

\* Record.__str__
RecordStr(rec) ==
    "Contact name: " \o Str(rec.name.value) \o ", phones: "
    \o Str(Join(<<";", " ">>, PhoneValues(rec)))

(***************************************************************************)
(* AddressBook.  The dict `data` is the sequence of its entries            *)
(* [key, rec] in insertion order, which is the order dict.values() yields. *)
(***************************************************************************)
Keys(book) == {book[i].key : i \in 1..Len(book)}

KeyIndex(book, name) == CHOOSE i \in 1..Len(book) : book[i].key = name

\* self.data[record.name.value] = record
add_record(book, record) ==
    IF record.name.value \in Keys(book)
    THEN [book EXCEPT ![KeyIndex(book, record.name.value)] =
                          [key |-> record.name.value, rec |-> record]]
    ELSE Append(book, [key |-> record.name.value, rec |-> record])

\* self.data.get(name)
find(book, name) ==
    IF name \in Keys(book) THEN book[KeyIndex(book, name)].rec ELSE None

\* A Record is mutated in place: the entry that holds the object found
\* under `name` sees what a method did to it.
StoreRecord(book, name, rec) ==
    [book EXCEPT ![KeyIndex(book, name)].rec = rec]

\* delete that empties the dict (self.data.clear())
AddressBook_delete_all(book, name) ==
    IF name \in Keys(book)
    THEN [exc |-> NoExc, book |-> <<>>]
    ELSE [exc |-> ValueError("This name does not exist in this address book"),
          book |-> book]

AddressBook_delete(book, name) ==
    IF name \in Keys(book)
    THEN LET At(i) ==
                 [exc |-> NoExc,
                  book |-> SubSeq(book, 1, i - 1)
                           \o SubSeq(book, i + 1, Len(book))]
         IN  At(KeyIndex(book, name))
    ELSE [exc |-> ValueError("This name does not exist in this address book"),
          book |-> book]

\* the window one day short
InWindowExclusive(days_diff) == 0 <= days_diff /\ days_diff < 7

\* a window of a year (0 <= days_diff <= 365)
InWindowOfAYear(days_diff) == 0 <= days_diff /\ days_diff <= 365

\* 0 <= days_diff <= 7
InWindow(days_diff) == 0 <= days_diff /\ days_diff <= 7

\* The congratulation date of a birthday inside the window: the birthday
\* itself Monday to Friday, else the Monday after it.
CongratulationDate(birthday, birthday_dt) ==
    LET On(weekday) ==
            IF 0 <= weekday /\ weekday <= 4
            THEN birthday
            ELSE Strftime(AddDays(birthday_dt, 7 - weekday))
    IN  On(Weekday(birthday_dt))

\* One pass of `for year in [this_year, next_year]`: [exc, val], val the
\* entries the pass appends to birthday_users.
YearPass(name, ddmm, year, now) ==
    LET Parsed(birthday, parsed) ==
            IF parsed.exc # NoExc
            THEN [exc |-> parsed.exc, val |-> <<>>]
            ELSE IF InWindow(DaysBetween(parsed.val, now))
            THEN [exc |-> NoExc,
                  val |-> <<[name |-> name,
                             congratulation_date |->
                                 CongratulationDate(birthday, parsed.val)]>>]
            ELSE [exc |-> NoExc, val |-> <<>>]
        Named(birthday) == Parsed(birthday, Strptime(birthday))
    IN  Named(ddmm \o <<".">> \o IntChars(year))

\* The loop over the years with this_year alone (for year in [this_year])
BothYears_this_year_only(name, ddmm, this_year, now) ==
    YearPass(name, ddmm, this_year, now)

\* The two passes over [this_year, next_year] for one record
BothYears(name, ddmm, this_year, now) ==
    LET First(first) ==
            IF first.exc # NoExc
            THEN first
            ELSE LET Second(second) ==
                         IF second.exc # NoExc
                         THEN second
                         ELSE [exc |-> NoExc, val |-> first.val \o second.val]
                 IN  Second(YearPass(name, ddmm, this_year + 1, now))
    IN  First(YearPass(name, ddmm, this_year, now))

\* One pass of `for record in self.data.values()`
RecordPass(record, now) ==
    IF record.birthday = None
    THEN [exc |-> AttributeError, val |-> <<>>]
    ELSE LET Split(parts) ==
                 BothYears(record.name.value,
                           Join(<<".">>, SubSeq(parts, 1, Len(parts) - 1)),
                           now.y, now)
         IN  Split(SplitDot(Strftime(record.birthday.value)))

RECURSIVE UpcomingFrom(_, _, _, _)
UpcomingFrom(book, i, now, birthday_users) ==
    IF i > Len(book)
    THEN [exc |-> NoExc, val |-> birthday_users]
    ELSE LET Passed(pass) ==
                 IF pass.exc # NoExc
                 THEN [exc |-> pass.exc, val |-> <<>>]
                 ELSE UpcomingFrom(book, i + 1, now, birthday_users \o pass.val)
         IN  Passed(RecordPass(book[i].rec, now))

\* `now` is datetime.today(), which the method reads from the clock
get_upcoming_birthdays(book, now) == UpcomingFrom(book, 1, now, <<>>)

(***************************************************************************)
(* Command handlers.  A handler returns [exc, book, val]: the exception it *)
(* raises (or NoExc), the book as it leaves it, and the string it returns. *)
(***************************************************************************)
\* `a, b = args` with the wrong number of values
UnpackError(expected, got) ==
    IF got < expected
    THEN ValueError("not enough values to unpack (expected "
                    \o Str(IntChars(expected)) \o ", got "
                    \o Str(IntChars(got)) \o ")")
    ELSE ValueError("too many values to unpack (expected "
                    \o Str(IntChars(expected)) \o ")")

\* bool(x) of None or of an object with no __bool__ or __len__
Truthy(x) == x # None

NoContact(book) ==
    [exc |-> ValueError("No contact found"), book |-> book, val |-> ""]

\* add_contact from `record.add_phone(phone)` on: `book1` is the book with
\* the record in it, `added` what add_phone did
add_contact_phone(name, book1, message, added) ==
    IF added.exc # NoExc
    THEN [exc |-> added.exc, book |-> book1, val |-> ""]
    ELSE [exc |-> NoExc, book |-> StoreRecord(book1, name, added.rec),
          val |-> message]

\* add_contact that files a new record itself, under the name in lower case
\* (book.data[name.lower()] = record)
add_contact_lower_key(args, book) ==
    IF Len(args) # 2
    THEN [exc |-> UnpackError(2, Len(args)), book |-> book, val |-> ""]
    ELSE LET Filed(name, added) ==
                 [exc |-> added.exc,
                  book |-> Append(book, [key |-> Lower(name),
                                         rec |-> added.rec]),
                  val |-> IF added.exc # NoExc THEN "" ELSE "Contact added."]
             Found(name, phone, record) ==
                 IF ~Truthy(record)
                 THEN Filed(name, Record_add_phone(Record(name), phone))
                 ELSE add_contact_phone(name, book, "Contact updated.",
                                        Record_add_phone(record, phone))
         IN  Found(args[1], args[2], find(book, args[1]))

add_contact(args, book) ==
    IF Len(args) # 2
    THEN [exc |-> UnpackError(2, Len(args)), book |-> book, val |-> ""]
    ELSE LET Found(name, phone, record) ==
                 IF ~Truthy(record)
                 THEN add_contact_phone(name, add_record(book, Record(name)),
                                        "Contact added.",
                                        Record_add_phone(Record(name), phone))
                 ELSE add_contact_phone(name, book, "Contact updated.",
                                        Record_add_phone(record, phone))
         IN  Found(args[1], args[2], find(book, args[1]))

change_contact(args, book) ==
    IF Len(args) # 3
    THEN [exc |-> UnpackError(3, Len(args)), book |-> book, val |-> ""]
    ELSE LET Edited(name, edited) ==
                 IF edited.exc # NoExc
                 THEN [exc |-> edited.exc, book |-> book, val |-> ""]
                 ELSE [exc |-> NoExc,
                       book |-> StoreRecord(book, name, edited.rec),
                       val |-> "Contact updated"]
             Found(name, phone_old, phone_new, record) ==
                 IF ~Truthy(record)
                 THEN NoContact(book)
                 ELSE Edited(name,
                             Record_edit_phone(record, phone_old, phone_new))
         IN  Found(args[1], args[2], args[3], find(book, args[1]))

delete_contact(args, book) ==
    IF Len(args) < 1
    THEN [exc |-> IndexError, book |-> book, val |-> ""]
    ELSE LET Deleted(deleted) ==
                 IF deleted.exc # NoExc
                 THEN [exc |-> deleted.exc, book |-> book, val |-> ""]
                 ELSE [exc |-> NoExc, book |-> deleted.book,
                       val |-> "Contact deleted"]
             Found(name, record) ==
                 IF ~Truthy(record)
                 THEN NoContact(book)
                 ELSE Deleted(AddressBook_delete(book, name))
         IN  Found(args[1], find(book, args[1]))

show_phone(args, book) ==
    IF Len(args) < 1
    THEN [exc |-> IndexError, book |-> book, val |-> ""]
    ELSE LET Found(record) ==
                 IF ~Truthy(record)
                 THEN NoContact(book)
                 ELSE [exc |-> NoExc, book |-> book,
                       val |-> Str(Strip(Join(<<";", " ">>,
                                              PhoneValues(record))))]
         IN  Found(find(book, args[1]))

show_all(book) ==
    IF Len(book) > 0
    THEN [exc |-> NoExc, book |-> book,
          val |-> JoinStr("\n", [i \in 1..Len(book) |-> RecordStr(book[i].rec)])]
    ELSE [exc |-> NoExc, book |-> book, val |-> "No contacts found"]

delete_phone(args, book) ==
    IF Len(args) # 2
    THEN [exc |-> UnpackError(2, Len(args)), book |-> book, val |-> ""]
    ELSE LET Deleted(name, deleted) ==
                 IF deleted.exc # NoExc
                 THEN [exc |-> deleted.exc, book |-> book, val |-> ""]
                 ELSE [exc |-> NoExc,
                       book |-> StoreRecord(book, name, deleted.rec),
                       val |-> "Phone deleted"]
             Found(name, phone, record) ==
                 IF ~Truthy(record)
                 THEN NoContact(book)
                 ELSE IF ~\E i \in 1..Len(record.phones) :
                              record.phones[i].value = phone
                 THEN [exc |-> ValueError("No such phone number in contact"),
                       book |-> book, val |-> ""]
                 ELSE Deleted(name, Record_delete_phone(record, phone))
         IN  Found(args[1], args[2], find(book, args[1]))

\* add_birthday without `if record.birthday: raise`
add_birthday_overwrites(args, book) ==
    IF Len(args) # 2
    THEN [exc |-> UnpackError(2, Len(args)), book |-> book, val |-> ""]
    ELSE LET Added(name, added) ==
                 IF added.exc # NoExc
                 THEN [exc |-> added.exc, book |-> book, val |-> ""]
                 ELSE [exc |-> NoExc,
                       book |-> StoreRecord(book, name, added.rec),
                       val |-> "Birthday added"]
             Found(name, birthday, record) ==
                 IF ~Truthy(record)
                 THEN NoContact(book)
                 ELSE Added(name, Record_add_birthday(record, birthday))
         IN  Found(args[1], args[2], find(book, args[1]))

add_birthday(args, book) ==
    IF Len(args) # 2
    THEN [exc |-> UnpackError(2, Len(args)), book |-> book, val |-> ""]
    ELSE LET Added(name, added) ==
                 IF added.exc # NoExc
                 THEN [exc |-> added.exc, book |-> book, val |-> ""]
                 ELSE [exc |-> NoExc,
                       book |-> StoreRecord(book, name, added.rec),
                       val |-> "Birthday added"]
             Found(name, birthday, record) ==
                 IF ~Truthy(record)
                 THEN NoContact(book)
                 ELSE IF Truthy(record.birthday)
                 THEN [exc |-> ValueError("Birthday already given"),
                       book |-> book, val |-> ""]
                 ELSE Added(name, Record_add_birthday(record, birthday))
         IN  Found(args[1], args[2], find(book, args[1]))

show_birthday(args, book) ==
    IF Len(args) < 1
    THEN [exc |-> IndexError, book |-> book, val |-> ""]
    ELSE LET Found(record) ==
                 IF ~Truthy(record)
                 THEN NoContact(book)
                 ELSE IF ~Truthy(record.birthday)
                 THEN [exc |-> ValueError("No birthday found"),
                       book |-> book, val |-> ""]
                 ELSE [exc |-> NoExc, book |-> book,
                       val |-> Str(Strftime(record.birthday.value))]
         IN  Found(find(book, args[1]))

\* str() of one {'name': ..., 'congratulation_date': ...} dict
EntryStr(bd_user) ==
    "{'name': '" \o Str(bd_user.name) \o "', 'congratulation_date': '"
    \o Str(bd_user.congratulation_date) \o "'}"

birthdays(book, now) ==
    LET Got(result) ==
            IF result.exc # NoExc
            THEN [exc |-> result.exc, book |-> book, val |-> ""]
            ELSE IF Len(result.val) > 0
            THEN [exc |-> NoExc, book |-> book,
                  val |-> JoinStr("\n", [i \in 1..Len(result.val) |->
                                             EntryStr(result.val[i])])]
            ELSE [exc |-> NoExc, book |-> book,
                  val |-> "No upcoming birthdays available"]
    IN  Got(get_upcoming_birthdays(book, now))

\* The decorator: what the wrapped handler's outcome becomes.  An exception
\* of any other class passes through.
input_error(res) ==
    IF res.exc.type = "ValueError"
    THEN [exc |-> NoExc, book |-> res.book, val |-> res.exc.msg]
    ELSE IF res.exc.type = "IndexError"
    THEN [exc |-> NoExc, book |-> res.book, val |-> "Not enough arguments"]
    ELSE IF res.exc.type = "KeyError"
    THEN [exc |-> NoExc, book |-> res.book, val |-> "Contact not found"]
    ELSE res

\* The command words, as strings of characters
W_hello == <<"h", "e", "l", "l", "o">>

W_close == <<"c", "l", "o", "s", "e">>

W_exit == <<"e", "x", "i", "t">>

W_EXIT == <<"E", "X", "I", "T">>

W_add == <<"a", "d", "d">>

W_change == <<"c", "h", "a", "n", "g", "e">>

W_delete == <<"d", "e", "l", "e", "t", "e">>

W_phone == <<"p", "h", "o", "n", "e">>

W_delete_phone == <<"d", "e", "l", "e", "t", "e", "-", "p", "h", "o", "n", "e">>

W_all == <<"a", "l", "l">>

W_add_birthday == <<"a", "d", "d", "-", "b", "i", "r", "t", "h", "d", "a", "y">>

W_show_birthday == <<"s", "h", "o", "w", "-", "b", "i", "r", "t", "h", "d", "a", "y">>

W_birthdays == <<"b", "i", "r", "t", "h", "d", "a", "y", "s">>

W_unknown == <<"r", "e", "m", "o", "v", "e">>

(***************************************************************************)
(* main(): one iteration of `while True` per input line.  `parts` is       *)
(* user_input.strip().split(), the line's whitespace-separated tokens.     *)
(***************************************************************************)
\* parse_input: [exc, command, args]
parse_input(parts) ==
    IF Len(parts) < 1
    THEN [exc |-> IndexError, command |-> "", args |-> <<>>]
    ELSE [exc |-> NoExc, command |-> Lower(parts[1]), args |-> Tail(parts)]

\* An exception nothing catches ends the process with a traceback, whose
\* last line names it.
Traceback(exc) == exc.type \o ": " \o exc.msg

\* What main() does with the outcome `res` of a branch of its if/elif chain:
\* print the line and loop (or break), unless an exception came through.
Finish(parts, res, stop) ==
    /\ line' = parts
    /\ today' = today
    /\ data' = res.book
    /\ IF res.exc # NoExc
       THEN pc' = "crashed" /\ out' = Traceback(res.exc)
       ELSE pc' = (IF stop THEN "exited" ELSE "running") /\ out' = res.val

\* The branch of the chain that `word` selects, with the outcome `res` of
\* the call it makes
Branch(parts, word, res) ==
    /\ parse_input(parts).exc = NoExc
    /\ parse_input(parts).command = word
    /\ \E r \in {res} : Finish(parts, r, FALSE)

Said(text) == [exc |-> NoExc, book |-> data, val |-> text]

Commands ==
    {W_close, W_exit, W_hello, W_add, W_change, W_delete, W_phone,
     W_delete_phone, W_all, W_add_birthday, W_show_birthday, W_birthdays}

(***************************************************************************)
(* The input lines the model reads                                         *)
(***************************************************************************)
Alice == <<"A", "l", "i", "c", "e">>

Bob == <<"B", "o", "b">>

Names == {Alice, Bob}

\* "1111111111", "2222222222", ...
PhoneTok(k) == [i \in 1..PhoneLen |-> Digits[k + 1]]

ValidPhones == {PhoneTok(1), PhoneTok(2)}

\* edit_phone can write a phone the record already holds, so a record's
\* phone list grows without limit; the model reads no add line for a contact
\* that holds MaxPhones phones.
MaxPhones == 2

Room(book, args) ==
    Len(args) > 0 /\ args[1] \in Keys(book)
        => Len(find(book, args[1]).phones) < MaxPhones

ShortPhone == <<"1", "2", "3">>

LetterPhone == <<"1", "2", "3", "4", "5", "6", "7", "8", "9", "a">>

Date(y, m, d) == [y |-> y, m |-> m, d |-> d]

\* The lines give Alice the phones and Bob the birthdays.
\* add: too few and too many arguments, a malformed phone, the valid ones
AddArgs ==
    {<<>>, <<Alice>>, <<Alice, PhoneTok(1), PhoneTok(2)>>,
     <<Alice, ShortPhone>>, <<Bob, PhoneTok(1)>>}
    \cup {<<Alice, p>> : p \in ValidPhones}

ChangeArgs ==
    {<<Alice>>, <<Alice, PhoneTok(1)>>, <<Bob, PhoneTok(2), PhoneTok(1)>>}
    \cup {<<Alice, o, w>> : o \in ValidPhones,
                            w \in ValidPhones \cup {LetterPhone}}

NameArgs == {<<>>} \cup {<<n>> : n \in Names}

DeletePhoneArgs ==
    {<<Alice>>, <<Bob, PhoneTok(2)>>} \cup {<<Alice, p>> : p \in ValidPhones}

\* 15.06.1990 and 12.06.1990, and a date no calendar has
BirthdayToks ==
    {Strftime(Date(1990, 6, 15)), Strftime(Date(1990, 6, 12)),
     <<"3", "1", ".", "0", "2", ".", "2", "0", "2", "4">>}

AddBirthdayArgs ==
    {<<Bob>>, <<Alice, <<"1", "5", "-", "0", "6", "-", "1", "9", "9", "0">>>>}
    \cup {<<Bob, b>> : b \in BirthdayToks}

\* The day the session runs on: Monday 10 June 2024
Todays == {Date(2024, 6, 10)}

(***************************************************************************)
(* The read loop as a state machine                                        *)
(***************************************************************************)
Init ==
    /\ data = <<>>
    /\ line = <<>>
    /\ out = "Welcome to the assistant bot!"
    /\ pc = "running"
    /\ today \in Todays

\* parse_input raises on a line with no token: parts[0] of an empty list
EmptyLine ==
    /\ pc = "running"
    /\ \E parts \in {<<>>} :
           /\ parse_input(parts).exc # NoExc
           /\ Finish(parts, [exc |-> parse_input(parts).exc, book |-> data,
                             val |-> ""], FALSE)

Close ==
    /\ pc = "running"
    /\ \E parts \in {<<W_close>>, <<W_exit>>, <<W_EXIT>>} :
           /\ parse_input(parts).exc = NoExc
           /\ parse_input(parts).command \in {W_close, W_exit}
           /\ Finish(parts, Said("Good bye!"), TRUE)

Hello ==
    /\ pc = "running"
    /\ \E parts \in {<<W_hello>>} :
           Branch(parts, W_hello, Said("How can I help you?"))

Add ==
    /\ pc = "running"
    /\ \E args \in AddArgs : \E parts \in {<<W_add>> \o args} :
           /\ Room(data, args)
           /\ Branch(parts, W_add,
                     input_error(add_contact(parse_input(parts).args, data)))

Change ==
    /\ pc = "running"
    /\ \E args \in ChangeArgs : \E parts \in {<<W_change>> \o args} :
           Branch(parts, W_change,
                  input_error(change_contact(parse_input(parts).args, data)))

Delete ==
    /\ pc = "running"
    /\ \E args \in NameArgs : \E parts \in {<<W_delete>> \o args} :
           Branch(parts, W_delete,
                  input_error(delete_contact(parse_input(parts).args, data)))

ShowPhone ==
    /\ pc = "running"
    /\ \E args \in NameArgs : \E parts \in {<<W_phone>> \o args} :
           Branch(parts, W_phone,
                  input_error(show_phone(parse_input(parts).args, data)))

DeletePhone ==
    /\ pc = "running"
    /\ \E args \in DeletePhoneArgs :
           \E parts \in {<<W_delete_phone>> \o args} :
               Branch(parts, W_delete_phone,
                      input_error(delete_phone(parse_input(parts).args, data)))

ShowAll ==
    /\ pc = "running"
    /\ \E parts \in {<<W_all>>} :
           Branch(parts, W_all, input_error(show_all(data)))

AddBirthday ==
    /\ pc = "running"
    /\ \E args \in AddBirthdayArgs :
           \E parts \in {<<W_add_birthday>> \o args} :
               Branch(parts, W_add_birthday,
                      input_error(add_birthday(parse_input(parts).args, data)))

ShowBirthday ==
    /\ pc = "running"
    /\ \E args \in NameArgs : \E parts \in {<<W_show_birthday>> \o args} :
           Branch(parts, W_show_birthday,
                  input_error(show_birthday(parse_input(parts).args, data)))

Birthdays ==
    /\ pc = "running"
    /\ \E parts \in {<<W_birthdays>>} :
           Branch(parts, W_birthdays, input_error(birthdays(data, today)))

\* the final else: no branch matches the command
Unknown ==
    /\ pc = "running"
    /\ \E parts \in {<<W_unknown>>} :
           /\ parse_input(parts).exc = NoExc
           /\ parse_input(parts).command \notin Commands
           /\ Finish(parts, Said("Invalid command."), FALSE)

Next ==
    \/ EmptyLine
    \/ Hello
    \/ Close
    \/ Unknown
    \/ Add
    \/ Change
    \/ Delete
    \/ ShowPhone
    \/ DeletePhone
    \/ ShowAll
    \/ AddBirthday
    \/ ShowBirthday
    \/ Birthdays

Spec == Init /\ [][Next]_vars

(***************************************************************************)
(* The upcoming-birthday algorithm over a range of clock readings: contacts *)
(* are added and given birthdays, and `birthdays` is asked on a day drawn   *)
(* from the days around mid-June 2024, mid-June 2025 and the turn of        *)
(* 2024/2025.                                                               *)
(***************************************************************************)
DaySpan == 11

FirstDays == {Date(2024, 6, 5), Date(2025, 6, 5), Date(2024, 12, 24)}

DateTodays == {AddDays(base, k) : base \in FirstDays, k \in 0..DaySpan}

\* 15.06.1990, 12.06.1990, 02.01.2000 and 29.02.2000
DateBirthdays ==
    {Strftime(Date(1990, 6, 15)), Strftime(Date(1990, 6, 12)),
     Strftime(Date(2000, 1, 2)), Strftime(Date(2000, 2, 29))}

InitDates ==
    /\ data = <<>>
    /\ line = <<>>
    /\ out = "Welcome to the assistant bot!"
    /\ pc = "running"
    /\ today \in DateTodays

DatesAdd ==
    /\ pc = "running"
    /\ \E n \in Names : \E parts \in {<<W_add, n, PhoneTok(1)>>} :
           Branch(parts, W_add,
                  input_error(add_contact(parse_input(parts).args, data)))

DatesAddBirthday ==
    /\ pc = "running"
    /\ \E n \in Names, b \in DateBirthdays :
           \E parts \in {<<W_add_birthday, n, b>>} :
               Branch(parts, W_add_birthday,
                      input_error(add_birthday(parse_input(parts).args, data)))

NextDates ==
    \/ DatesAdd
    \/ DatesAddBirthday
    \/ Birthdays

SpecDates == InitDates /\ [][NextDates]_vars

(***************************************************************************)
(* The classes used directly: besides the commands that build a book, a    *)
(* caller invokes book.find(name).add_birthday(value) itself.  `line` then *)
(* names the call, `out` is the exception it raised, if any.               *)
(***************************************************************************)
W_Record_add_birthday == <<"R", "e", "c", "o", "r", "d", ".", "a", "d", "d", "_", "b", "i", "r", "t", "h", "d", "a", "y">>

RecordAddBirthday ==
    /\ pc = "running"
    /\ \E n \in Keys(data), b \in BirthdayToks :
           \E r \in {Record_add_birthday(find(data, n), b)} :
               /\ line' = <<W_Record_add_birthday, n, b>>
               /\ data' = StoreRecord(data, n, r.rec)
               /\ out' = (IF r.exc # NoExc THEN Traceback(r.exc) ELSE "")
               /\ UNCHANGED <<pc, today>>

NextApi ==
    \/ Add
    \/ AddBirthday
    \/ ShowBirthday
    \/ RecordAddBirthday

SpecApi == Init /\ [][NextApi]_vars

(***************************************************************************)
(* The value types used directly: Phone(s) and Birthday(s) are built from  *)
(* strings no command line could carry (blanks, line ends) as well as from *)
(* ordinary ones.  `line` names the call, `out` is the object's display    *)
(* or the exception raised.                                                *)
(***************************************************************************)
W_Phone == <<"P", "h", "o", "n", "e">>

W_Birthday == <<"B", "i", "r", "t", "h", "d", "a", "y">>

\* Field.__str__
Field_str(field) == field.value

\* Strings end in up to MaxTail of these characters
MaxTail == 2

TailChars == {"0", "a", "\n"}

Tails == UNION {[1..n -> TailChars] : n \in 0..MaxTail}

NineDigits == <<"1", "2", "3", "4", "5", "6", "7", "8", "9">>

\* nine digits and a tail, a letter among ten characters, the empty string
PhoneStrings ==
    {NineDigits \o t : t \in Tails}
    \cup {<<>>, LetterPhone, <<" ">> \o NineDigits, <<"a">> \o NineDigits}

DayStrings == {<<"0", "0">>, <<"0", "1">>, <<"2", "9">>, <<"3", "0">>,
               <<"3", "1">>, <<"1", "a">>}

MonthStrings == {<<"0", "1">>, <<"0", "2">>, <<"0", "6">>, <<"1", "3">>}

YearStrings == {<<"0", "0", "0", "0">>, <<"0", "0", "0", "1">>,
                <<"0", "9", "9", "9">>, <<"1", "9", "9", "0">>,
                <<"2", "0", "0", "0">>, <<"2", "0", "2", "3">>}

\* DD.MM.YYYY with the fields above, the valid ones with a tail as well,
\* and strings of another shape
BirthdayStrings ==
    {d \o <<".">> \o m \o <<".">> \o y :
         d \in DayStrings, m \in MonthStrings, y \in YearStrings}
    \cup {Strftime(Date(1990, 6, 15)) \o t : t \in Tails}
    \cup {<<>>, <<"1", "5", "-", "0", "6", "-", "1", "9", "9", "0">>,
          <<"1", "5", ".", "0", "6", ".", "9", "0">>,
          <<"1", ".", "0", "6", ".", "1", "9", "9", "0">>,
          <<" ">> \o Strftime(Date(1990, 6, 15))}

InitValues ==
    /\ data = <<>>
    /\ line = <<>>
    /\ out = ""
    /\ pc = "running"
    /\ today \in Todays

\* str(Phone(s))
MakePhone ==
    \E s \in PhoneStrings :
        \E r \in {Phone(s)} :
            /\ line' = <<W_Phone, s>>
            /\ out' = (IF r.exc # NoExc THEN Traceback(r.exc)
                       ELSE Str(Field_str(r.val)))
            /\ UNCHANGED <<data, pc, today>>

\* Birthday(s).value.strftime("%d.%m.%Y"), the display show_birthday gives
MakeBirthday ==
    \E s \in BirthdayStrings :
        \E r \in {Birthday(s)} :
            /\ line' = <<W_Birthday, s>>
            /\ out' = (IF r.exc # NoExc THEN Traceback(r.exc)
                       ELSE Str(Strftime(r.val.value)))
            /\ UNCHANGED <<data, pc, today>>

NextValues == MakePhone \/ MakeBirthday

SpecValues == InitValues /\ [][NextValues]_vars

(***************************************************************************)
(* Record.edit_phone used directly: a caller invokes                       *)
(* book.find(name).edit_phone(old, new) with strings of its own, a phone   *)
(* that ends in a newline among them.                                      *)
(***************************************************************************)
W_Record_edit_phone == <<"R", "e", "c", "o", "r", "d", ".", "e", "d", "i", "t", "_", "p", "h", "o", "n", "e">>

NewlinePhone == PhoneTok(2) \o <<"\n">>

EditNews == ValidPhones \cup {LetterPhone, ShortPhone, NewlinePhone}

RecordEditPhone ==
    /\ pc = "running"
    /\ \E n \in Keys(data), old \in ValidPhones, new \in EditNews :
           \E r \in {Record_edit_phone(find(data, n), old, new)} :
               /\ line' = <<W_Record_edit_phone, n, old, new>>
               /\ data' = StoreRecord(data, n, r.rec)
               /\ out' = (IF r.exc # NoExc THEN Traceback(r.exc) ELSE "")
               /\ UNCHANGED <<pc, today>>

NextRecord ==
    \/ Add
    \/ DeletePhone
    \/ RecordEditPhone

SpecRecord == Init /\ [][NextRecord]_vars

(***************************************************************************)
(* Properties                                                              *)
(***************************************************************************)
HasBirthday(entry) == entry.rec.birthday # None

HasNoBirthday(book) == \E e \in 1..Len(book) : ~HasBirthday(book[e])

\* The birthday of a record projected onto `year`, when that year has it
CandidateExists(bd, year) == bd.d <= DaysInMonth(year, bd.m)

AllCandidatesExist(book, now) ==
    \A e \in 1..Len(book) : \A year \in {now.y, now.y + 1} :
        HasBirthday(book[e]) =>
            CandidateExists(book[e].rec.birthday.value, year)

\* The day to congratulate on: the candidate Monday to Friday, two days on
\* for a Saturday, one day on for a Sunday
ExpectedDate(cand) ==
    IF Weekday(cand) \in 0..4 THEN cand
    ELSE IF Weekday(cand) = 5 THEN AddDays(cand, 2)
    ELSE AddDays(cand, 1)

ExpectedFor(entry, year, now) ==
    LET Cand(cand) ==
            IF 0 <= ToOrdinal(cand) - ToOrdinal(now)
               /\ ToOrdinal(cand) - ToOrdinal(now) <= 7
            THEN <<[name |-> entry.rec.name.value,
                    congratulation_date |-> Strftime(ExpectedDate(cand))]>>
            ELSE <<>>
    IN  Cand(Date(year, entry.rec.birthday.value.m,
                  entry.rec.birthday.value.d))

RECURSIVE ExpectedUpcoming(_, _)
ExpectedUpcoming(book, now) ==
    IF book = <<>> THEN <<>>
    ELSE ExpectedFor(Head(book), now.y, now)
         \o ExpectedFor(Head(book), now.y + 1, now)
         \o ExpectedUpcoming(Tail(book), now)

ExpectedOutput(book, now) ==
    LET Listed(entries) ==
            IF entries = <<>> THEN "No upcoming birthdays available"
            ELSE JoinStr("\n", [i \in 1..Len(entries) |-> EntryStr(entries[i])])
    IN  Listed(ExpectedUpcoming(book, now))

\* C1: after any sequence of add, change and delete-phone operations, no
\* record holds two phones with the same value.
NoDuplicatePhones ==
    \A e \in 1..Len(data) :
        \A i, j \in 1..Len(data[e].rec.phones) :
            i # j => data[e].rec.phones[i] # data[e].rec.phones[j]

\* C2: the read loop ends only on a line whose command is close or exit;
\* after any other line (an empty one, an unrecognized command, a command
\* whose handler fails) the process is still reading.
LoopEndsOnlyOnCloseOrExit ==
    pc # "running" =>
        /\ pc = "exited"
        /\ line # <<>>
        /\ parse_input(line).command \in {W_close, W_exit}

\* C3: birthdays on a book that holds a record without a birthday does not
\* raise: the loop goes on and the answer lists exactly the upcoming
\* birthdays of the records that have one.
BirthdaysSkipsRecordsWithoutBirthday ==
    line = <<W_birthdays>> /\ HasNoBirthday(data) =>
        /\ pc = "running"
        /\ out = ExpectedOutput(SelectSeq(data, HasBirthday), today)

Reads(word) == line' # <<>> /\ parse_input(line').command = word

\* The step reads `word` with `n` arguments
ReadsWith(word, n) == Reads(word) /\ Len(line') = n + 1

\* The phones, as strings, of the contact `name` of `book`
PhonesOf(book, name) == PhoneValues(find(book, name))

BirthdayOf(book, name) == find(book, name).birthday

Without(book, name) == SelectSeq(book, LAMBDA e : e.key # name)

Required(word) ==
    IF word = W_change THEN 3
    ELSE IF word \in {W_add, W_delete_phone, W_add_birthday} THEN 2
    ELSE 1

\* C7: a handler that takes arguments, given fewer than it requires,
\* answers 'Not enough arguments' and leaves the book unchanged.
TooFewArgumentsAnswer ==
    [][\A word \in {W_add, W_change, W_delete, W_delete_phone, W_phone,
                    W_add_birthday, W_show_birthday} :
           Reads(word) /\ Len(line') - 1 < Required(word)
               => out' = "Not enough arguments" /\ data' = data]_vars

\* What add and a following phone command do for `phone` and `name`
Upserts ==
    /\ ReadsWith(W_add, 2) /\ line'[2] \notin Keys(data)
           => /\ out' = "Contact added."
              /\ Len(data') = Len(data) + 1
              /\ PhonesOf(data', line'[2]) = <<line'[3]>>
    /\ ReadsWith(W_add, 2) /\ line'[2] \in Keys(data)
           => /\ out' = "Contact updated."
              /\ PhonesOf(data', line'[2])
                     = Append(PhonesOf(data, line'[2]), line'[3])
    /\ ReadsWith(W_phone, 1) /\ line'[2] \in Keys(data)
           => out' = Str(Join(<<";", " ">>, PhonesOf(data, line'[2])))

\* C8 as stated: add with a valid phone creates the record with exactly that
\* phone ('Contact added.') or appends the phone after the record's phones
\* ('Contact updated.'); phone then answers the phones in order joined by
\* '; '.
AddUpserts ==
    [][(Reads(W_add) /\ Len(line') = 3 => PH_PATTERN(line'[3]))
       => Upserts]_vars

\* C8 amended: the same for a valid phone the record does not already hold.
AddUpsertsNewPhone ==
    [][(Reads(W_add) /\ Len(line') = 3
            => /\ PH_PATTERN(line'[3])
               /\ line'[2] \in Keys(data)
                      => ~PhoneIn([value |-> line'[3]],
                                  find(data, line'[2]).phones))
       => Upserts]_vars

\* add Alice 1111111111, add Alice 2222222222, phone Alice
AddUpsertsNewPhoneWitness ==
    /\ line = <<W_phone, Alice>>
    /\ out = "1111111111; 2222222222"

\* C9: adding a phone equal to one the record holds fails with 'This phone
\* number already exists' and leaves the record's phone list, values and
\* order, as it was.
DuplicatePhoneRefused ==
    [][ReadsWith(W_add, 2)
       /\ line'[2] \in Keys(data)
       /\ PhoneIn([value |-> line'[3]], find(data, line'[2]).phones)
       => out' = "This phone number already exists" /\ data' = data]_vars

\* add Alice 1111111111 read for an Alice who holds 1111111111
DuplicatePhoneRefusedWitness ==
    /\ line = <<W_add, Alice, PhoneTok(1)>>
    /\ out = "This phone number already exists"
    /\ PhonesOf(data, Alice) = <<PhoneTok(1)>>

DeletePhoneRemovesThatPhone ==
    [][ReadsWith(W_delete_phone, 2) /\ line'[2] \in Keys(data)
       => IF ~PhoneIn([value |-> line'[3]], find(data, line'[2]).phones)
          THEN out' = "No such phone number in contact" /\ data' = data
          ELSE /\ out' = "Phone deleted"
               /\ \E i \in 1..Len(PhonesOf(data, line'[2])) :
                      /\ PhonesOf(data, line'[2])[i] = line'[3]
                      /\ data' = [data EXCEPT
                                      ![KeyIndex(data, line'[2])].rec.phones =
                                          SubSeq(@, 1, i - 1)
                                          \o SubSeq(@, i + 1, Len(@))]]_vars

\* delete-phone Alice 1111111111 read for an Alice who holds 1111111111 and
\* 2222222222
DeletePhoneRemovesThatPhoneWitness ==
    /\ line = <<W_delete_phone, Alice, PhoneTok(1)>>
    /\ out = "Phone deleted"
    /\ PhonesOf(data, Alice) = <<PhoneTok(2)>>

\* C12: after any sequence of commands every key of the book equals the
\* name.value of the record it maps to (and no key occurs twice).
KeysEqualNames ==
    /\ \A e \in 1..Len(data) : data[e].key = data[e].rec.name.value
    /\ \A e, f \in 1..Len(data) : data[e].key = data[f].key => e = f

\* A book of two contacts right after an add that found its contact
KeysEqualNamesWitness ==
    /\ line # <<>> /\ line[1] = W_add
    /\ out = "Contact updated."
    /\ Keys(data) = {Alice, Bob}

\* C13: after any sequence of commands every phone string stored in a
\* record's phone list consists of exactly 10 decimal digits.
StoredPhonesTenDigits ==
    \A e \in 1..Len(data) :
        \A i \in 1..Len(data[e].rec.phones) :
            /\ Len(data[e].rec.phones[i].value) = 10
            /\ \A j \in 1..Len(data[e].rec.phones[i].value) :
                   data[e].rec.phones[i].value[j] \in DigitSet

\* A change that edit_phone carried out
StoredPhonesTenDigitsWitness ==
    /\ line = <<W_change, Alice, PhoneTok(1), PhoneTok(2)>>
    /\ out = "Contact updated"
    /\ PhonesOf(data, Alice) = <<PhoneTok(2)>>

TenDigits(s) == Len(s) = 10 /\ \A i \in 1..Len(s) : s[i] \in DigitSet

\* C14: Phone construction fails with 'Phone number must contain exactly 10
\* digits.' for every string of a length other than 10 or with a non-digit
\* character; for a string of exactly 10 digits it succeeds and the phone
\* displays as that string.
PhoneAcceptsExactlyTenDigits ==
    line # <<>> /\ line[1] = W_Phone =>
        IF TenDigits(line[2])
        THEN out = Str(line[2])
        ELSE out = "ValueError: Phone number must contain exactly 10 digits."

\* The string is DD.MM.YYYY and names a day of the calendar (years from 1,
\* the first that datetime has)
ValidDateString(s) ==
    /\ Len(s) = 10
    /\ \A i \in {1, 2, 4, 5, 7, 8, 9, 10} : s[i] \in DigitSet
    /\ s[3] = "." /\ s[6] = "."
    /\ Num(SubSeq(s, 7, 10)) >= 1
    /\ Num(SubSeq(s, 4, 5)) \in 1..12
    /\ Num(SubSeq(s, 1, 2)) >= 1
    /\ Num(SubSeq(s, 1, 2))
           <= DaysInMonth(Num(SubSeq(s, 7, 10)), Num(SubSeq(s, 4, 5)))

\* C15: Birthday construction fails with 'Invalid date format. Use
\* DD.MM.YYYY' for every string that is not DD.MM.YYYY or names no day of
\* the calendar; for every valid string, parsing and then formatting for
\* display gives the string back.
BirthdayRoundTrip ==
    line # <<>> /\ line[1] = W_Birthday =>
        IF ValidDateString(line[2])
        THEN out = Str(line[2])
        ELSE out = "ValueError: Invalid date format. Use DD.MM.YYYY"

\* The step is the direct call `word`
Calls(word) == line' # <<>> /\ line'[1] = word

\* C16: edit_phone(old, new) fails with 'Phone number not found' whenever
\* the record does not hold old, whatever new is, fails with 'Phone number
\* must contain exactly 10 digits.' when it holds old and new is not a
\* string of 10 digits, and leaves the phone list as it was in both cases.
EditPhoneFailures ==
    [][Calls(W_Record_edit_phone) =>
           /\ (~PhoneIn([value |-> line'[3]], find(data, line'[2]).phones)
                   => /\ out' = "ValueError: Phone number not found"
                      /\ data' = data)
           /\ (PhoneIn([value |-> line'[3]], find(data, line'[2]).phones)
                /\ ~TenDigits(line'[4])
                   => /\ out' = "ValueError: Phone number must contain exactly 10 digits."
                      /\ data' = data)]_vars

\* birthdays was read on a book whose records all have a birthday that both
\* years have: the call raises nothing
BirthdaysAnswered ==
    /\ line = <<W_birthdays>>
    /\ ~HasNoBirthday(data)
    /\ AllCandidatesExist(data, today)

\* The first day on or after `now` that has the birthday's day and month
NextOccurrence(bd, now) ==
    IF ToOrdinal(Date(now.y, bd.m, bd.d)) >= ToOrdinal(now)
    THEN Date(now.y, bd.m, bd.d)
    ELSE Date(now.y + 1, bd.m, bd.d)

RECURSIVE ExpectedByNextOccurrence(_, _)
ExpectedByNextOccurrence(book, now) ==
    IF book = <<>> THEN <<>>
    ELSE LET Next1(occ) ==
                 IF ToOrdinal(occ) - ToOrdinal(now) <= 7
                 THEN <<[name |-> Head(book).rec.name.value,
                         congratulation_date |-> Strftime(ExpectedDate(occ))]>>
                 ELSE <<>>
         IN  Next1(NextOccurrence(Head(book).rec.birthday.value, now))
             \o ExpectedByNextOccurrence(Tail(book), now)

Listing(entries) ==
    IF entries = <<>> THEN "No upcoming birthdays available"
    ELSE JoinStr("\n", [i \in 1..Len(entries) |-> EntryStr(entries[i])])

AtMostOncePerContact ==
    BirthdaysAnswered =>
        /\ \A e \in 1..Len(data) :
               Len(ExpectedFor(data[e], today.y, today)
                   \o ExpectedFor(data[e], today.y + 1, today)) <= 1
        /\ \E r \in {get_upcoming_birthdays(data, today)} :
               /\ r.exc = NoExc
               /\ out = Listing(r.val)
               /\ \A i, j \in 1..Len(r.val) :
                      r.val[i].name = r.val[j].name => i = j

\* Asked on Thursday 12.06.2025 with both contacts born on 12.06.1990: each
\* is listed once
AtMostOncePerContactWitness ==
    /\ line = <<W_birthdays>>
    /\ today = Date(2025, 6, 12)
    /\ out = "{'name': 'Alice', 'congratulation_date': '12.06.2025'}\n"
             \o "{'name': 'Bob', 'congratulation_date': '12.06.2025'}"

CandidatesExist(entry) ==
    \A year \in {today.y, today.y + 1} :
        CandidateExists(entry.rec.birthday.value, year)

\* C20: on a book in which every record has a birthday, one of 29 February
\* included, birthdays raises nothing and answers the upcoming entries of
\* the other contacts, or 'No upcoming birthdays available', not an error
\* message.
LeapDayBirthdayTolerated ==
    line = <<W_birthdays>> /\ ~HasNoBirthday(data) =>
        /\ pc = "running"
        /\ out = ExpectedOutput(SelectSeq(data, CandidatesExist), today)

\* C18: an add with a name the book lacks and a phone that is not a string
\* of 10 digits answers the validation message and leaves the book as it
\* was, with no record for the name.
FailedAddLeavesBook ==
    [][ReadsWith(W_add, 2)
       /\ line'[2] \notin Keys(data)
       /\ ~TenDigits(line'[3])
       => /\ out' = "Phone number must contain exactly 10 digits."
          /\ data' = data
          /\ line'[2] \notin Keys(data')]_vars

=============================================================================
